---- MODULE Spec2Model ----
(***************************************************************************)
(* Order management of the storefront (src/src/orders/models.py): the     *)
(* Order table, the Python Order instances callers hold, the manager's    *)
(* get_or_new, Order.update_total / check_done / mark_paid and the three  *)
(* signal receivers that run inside every save.                           *)
(*                                                                         *)
(* A Django model instance is a Python object with its own copy of the    *)
(* row: Model.save() writes every field of the instance, QuerySet.update  *)
(* changes rows only.  Both are kept apart here: orders is the table,     *)
(* inst the instances held by callers.                                    *)
(*                                                                         *)
(* Money is counted in cents.  A natural number is a little-endian        *)
(* sequence of limbs in base 2^LimbBits, so that math.fsum (binary64) and *)
(* format(x, '.2f') are computed bit for bit.                             *)
(***************************************************************************)
EXTENDS Integers, Naturals, Sequences, FiniteSets, TLC

\* ---- bounds of the model
MaxOrders == 3
MaxPurchases == 3

\* ---- number representation
LimbBits == 15
Base == 2 ^ LimbBits
\* binary64: 53 significant bits
MantissaBits == 53
\* fraction bits kept of cents / 100 before rounding to binary64
QuotientShift == 64

Min(a, b) == IF a < b THEN a ELSE b

\* n without its leading zero limbs
Norm(n) ==
    LET nz == {i \in 1..Len(n) : n[i] # 0}
    IN  IF nz = {} THEN <<>>
        ELSE SubSeq(n, 1, CHOOSE i \in nz : \A j \in nz : j <= i)

Limb(n, i) == IF i >= 1 /\ i <= Len(n) THEN n[i] ELSE 0

Rest(n) == IF n = <<>> THEN <<>> ELSE Tail(n)

\* n * k + c for small k and c
RECURSIVE MulAdd(_, _, _)
MulAdd(n, k, c) ==
    IF n = <<>> /\ c = 0 THEN <<>>
    ELSE LET v == Limb(n, 1) * k + c
         IN  <<v % Base>> \o MulAdd(Rest(n), k, v \div Base)

RECURSIVE AddC(_, _, _)
AddC(a, b, c) ==
    IF a = <<>> /\ b = <<>> /\ c = 0 THEN <<>>
    ELSE LET v == Limb(a, 1) + Limb(b, 1) + c
         IN  <<v % Base>> \o AddC(Rest(a), Rest(b), v \div Base)

\* exact sum
Add(a, b) == Norm(AddC(a, b, 0))

\* long division of n by a small d, most significant limb first
RECURSIVE DivStep(_, _, _)
DivStep(n, d, i) ==
    IF i > Len(n) THEN [q |-> <<>>, r |-> 0]
    ELSE LET hi  == DivStep(n, d, i + 1)
             cur == hi.r * Base + n[i]
         IN  [q |-> <<cur \div d>> \o hi.q, r |-> cur % d]

DivSmall(n, d) == LET dv == DivStep(n, d, 1) IN [q |-> Norm(dv.q), r |-> dv.r]

IsOdd(n) == Limb(n, 1) % 2 = 1

\* number of significant bits
BitLen(n) ==
    IF n = <<>> THEN 0
    ELSE LimbBits * (Len(n) - 1)
         + (CHOOSE k \in 1..LimbBits : 2 ^ (k - 1) <= n[Len(n)] /\ n[Len(n)] < 2 ^ k)

\* n * 2^k and floor(n / 2^k)
Shl(n, k) ==
    IF n = <<>> THEN <<>>
    ELSE Norm([i \in 1..(k \div LimbBits) |-> 0] \o MulAdd(n, 2 ^ (k % LimbBits), 0))

DropLimbs(n, j) == IF j >= Len(n) THEN <<>> ELSE SubSeq(n, j + 1, Len(n))

Shr(n, k) == DivSmall(DropLimbs(n, k \div LimbBits), 2 ^ (k % LimbBits)).q

\* n mod 2^k is not zero
LowBitsSet(n, k) ==
    \/ \E i \in 1..Min(k \div LimbBits, Len(n)) : n[i] # 0
    \/ DivSmall(DropLimbs(n, k \div LimbBits), 2 ^ (k % LimbBits)).r # 0

\* n / 2^d rounded to an integer, ties to even
RoundHalfEven(n, d, sticky) ==
    IF d = 0 THEN n
    ELSE LET kept == Shr(n, d)
             up   == /\ IsOdd(Shr(n, d - 1))
                     /\ (sticky \/ LowBitsSet(n, d - 1) \/ IsOdd(kept))
         IN  IF up THEN Add(kept, <<1>>) ELSE kept

\* n * 2^e (plus a fraction below the last bit when sticky) rounded to
\* MantissaBits significant bits, ties to even
RoundDouble(n, e, sticky) ==
    LET d == BitLen(n) - MantissaBits
    IN  IF d <= 0 THEN [m |-> n, e |-> e]
        ELSE LET m1 == RoundHalfEven(n, d, sticky)
             IN  IF BitLen(m1) > MantissaBits
                 THEN [m |-> Shr(m1, 1), e |-> e + d + 1]
                 ELSE [m |-> m1, e |-> e + d]

\* float(Decimal): the binary64 nearest to cents / 100, as m * 2^e
DecimalToFloat(cents) ==
    LET dv == DivSmall(Shl(cents, QuotientShift), 100)
    IN  RoundDouble(dv.q, 0 - QuotientShift, dv.r # 0)

\* math.fsum of two floats: the exact sum, rounded once
fsum(a, b) ==
    LET e == Min(a.e, b.e)
    IN  RoundDouble(Add(Shl(a.m, a.e - e), Shl(b.m, b.e - e)), e, FALSE)

\* format(x, '.2f'): the exact value of x rounded to cents, ties to even
Format2f(x) ==
    LET n == Norm(MulAdd(x.m, 100, 0))
    IN  IF x.e >= 0 THEN Shl(n, x.e) ELSE RoundHalfEven(n, 0 - x.e, FALSE)

\* ---- values
None == "None"
\* primary key of an instance that was never saved
NoPk == 0
\* Order.order_id of an instance that was never saved (blank=True)
NoOrderId == ""
\* the strings the order id generator draws from
OrderIds == {"id1", "id2", "id3", "id4", "id5", "id6", "id7", "id8"}
\* a cart that was never saved; a slot in which the caller holds nothing
NoCart == [saved |-> FALSE]
NoInstance == [held |-> FALSE]
Carts == {"c1"}
BillingProfiles == {"A", "B"}
Address == "addr"
ORDER_STATUS_CHOICES == {"created", "paid", "shipped", "refunded", "cancelled", "delivered"}

\* Order.shipping_total default=50.00, Order.total default=0.00
DefaultShippingTotal == <<5000>>
DefaultTotal == <<>>

\* 70368744177664.01 = 2^46 + 0.01, a value of a decimal(100,2) column
LargeTotal == <<1, 0, 0, 200>>
\* cart totals: 100.00 and 200.00; with the empty cart and a large one
Prices == {<<10000>>, <<20000>>}
CheckoutPrices == {<<>>, <<10000>>}
LargePrices == {<<10000>>, LargeTotal}
ShippingTotals == {<<>>, DefaultShippingTotal}
\* the variables in which callers hold Order instances
Held == {"h1"}
NotKept == "-"

\* products of ProductPurchase rows
Products == {"p1", "p2"}

\* the requests that run get_or_new query by query
Requests == {"r1", "r2"}
\* a request that has not called get_or_new
NoCall == [pc |-> "idle"]

VARIABLES carts, orders, inst, ret, purchases, pending

vars == <<carts, orders, inst, ret, purchases, pending>>

\* ---- instances and rows
\* An attribute holding a number (Decimal from the table, float default) or a str
Number(cents) == [type |-> "number", cents |-> cents]
Str(cents) == [type |-> "str", cents |-> cents]

\* Order(billing_profile=..., cart=..., shipping_total=...) before its first save
NewInstance(bp, c, st) ==
    [pk |-> NoPk, order_id |-> NoOrderId, billing_profile |-> bp, cart |-> c,
     status |-> "created",
     shipping_total |-> st, total |-> Number(DefaultTotal), active |-> TRUE,
     shipping_address |-> None, billing_address |-> None]

\* the column values Model.save() writes for an instance
ToRow(o) ==
    [order_id |-> o.order_id, billing_profile |-> o.billing_profile, cart |-> o.cart,
     status |-> o.status,
     shipping_total |-> o.shipping_total, total |-> o.total.cents, active |-> o.active,
     shipping_address |-> o.shipping_address, billing_address |-> o.billing_address]

\* the instance a queryset builds from row pk
FromRow(db, pk) ==
    [pk |-> pk, order_id |-> db[pk].order_id,
     billing_profile |-> db[pk].billing_profile, cart |-> db[pk].cart,
     status |-> db[pk].status, shipping_total |-> db[pk].shipping_total,
     total |-> Number(db[pk].total), active |-> db[pk].active,
     shipping_address |-> db[pk].shipping_address,
     billing_address |-> db[pk].billing_address]

\* ---- signal receivers and Order methods
\* kart.utils.unique_order_id_generator: a non-empty string that no order of
\* the table carries
unique_order_id_generator(db, instance) ==
    CHOOSE id \in OrderIds : \A i \in DOMAIN db : db[i].order_id # id

\* variant: the exclude() drops the rows whose billing profile is NULL, as a
\* plain SQL <> would
order_id_pre_save_receiver_sql_null(db, instance) ==
    [instance |->
        IF instance.order_id = NoOrderId
        THEN [instance EXCEPT !.order_id = unique_order_id_generator(db, instance)]
        ELSE instance,
     db |->
        [i \in DOMAIN db |->
            IF /\ db[i].cart = instance.cart
               /\ db[i].billing_profile # instance.billing_profile
               /\ db[i].billing_profile # None
            THEN [db[i] EXCEPT !.active = FALSE]
            ELSE db[i]]]

\* variant: a new order id is generated on every save
order_id_pre_save_receiver_regenerate(db, instance) ==
    [instance |-> [instance EXCEPT !.order_id = unique_order_id_generator(db, instance)],
     db |->
        [i \in DOMAIN db |->
            IF db[i].cart = instance.cart
               /\ db[i].billing_profile # instance.billing_profile
            THEN [db[i] EXCEPT !.active = FALSE]
            ELSE db[i]]]

\* pre_save of Order: an instance without order id gets one; rows of the same
\* cart with another billing profile (NULL included) are set inactive
order_id_pre_save_receiver(db, instance) ==
    [instance |->
        IF instance.order_id = NoOrderId
        THEN [instance EXCEPT !.order_id = unique_order_id_generator(db, instance)]
        ELSE instance,
     db |->
        [i \in DOMAIN db |->
            IF db[i].cart = instance.cart
               /\ db[i].billing_profile # instance.billing_profile
            THEN [db[i] EXCEPT !.active = FALSE]
            ELSE db[i]]]

\* INSERT when the instance has no pk, else UPDATE of all columns
WriteRow(db, instance) ==
    IF instance.pk = NoPk THEN Append(db, ToRow(instance))
    ELSE [db EXCEPT ![instance.pk] = ToRow(instance)]

\* math.fsum([cart.total, shipping_total]) formatted with '.2f', in cents
NewTotal(cartTotal, shippingTotal) ==
    Format2f(fsum(DecimalToFloat(cartTotal), DecimalToFloat(shippingTotal)))

RECURSIVE save(_, _, _)
RECURSIVE update_total(_, _, _)

\* Every operation returns, next to its results, calls: the methods and
\* receivers it ran, in the order they were entered.

\* post_save of Order
order_post_save_receiver(db, instance, created, cs) ==
    IF created
    THEN LET result(u) == [db |-> u.db, instance |-> u.instance,
                           calls |-> <<"order_post_save_receiver">> \o u.calls]
         IN  result(update_total(db, instance, cs))
    ELSE [db |-> db, instance |-> instance, calls |-> <<"order_post_save_receiver">>]

\* Model.save(): pre_save receiver, write, post_save receiver
save(db, instance, cs) ==
    LET created == instance.pk = NoPk
        result(post) ==
            [db |-> post.db, instance |-> post.instance,
             calls |-> <<"save", "order_id_pre_save_receiver">> \o post.calls]
        written(pre) ==
            result(order_post_save_receiver(
                WriteRow(pre.db, pre.instance),
                IF created THEN [pre.instance EXCEPT !.pk = Len(pre.db) + 1]
                ELSE pre.instance,
                created, cs))
    IN  written(order_id_pre_save_receiver(db, instance))

update_total(db, instance, cs) ==
    LET new_total == NewTotal(cs[instance.cart].total, instance.shipping_total)
        result(s) == [db |-> s.db, instance |-> s.instance, value |-> s.instance.total,
                      calls |-> <<"update_total">> \o s.calls]
    IN  result(save(db, [instance EXCEPT !.total = Str(new_total)], cs))

\* variant: the shipping address is never required
check_done_no_shipping(instance, cs) ==
    IF instance.billing_profile # None /\ instance.billing_address # None
    THEN IF instance.total.type = "str" THEN "TypeError"
         ELSE IF instance.total.cents # <<>> THEN "True" ELSE "False"
    ELSE "False"

\* "True", "False", or "TypeError" when a str total is compared with 0
check_done(instance, cs) ==
    LET shipping_address_required == ~cs[instance.cart].is_digital
        shipping_done ==
            IF shipping_address_required THEN instance.shipping_address # None ELSE TRUE
    IN  IF instance.billing_profile # None /\ shipping_done
           /\ instance.billing_address # None
        THEN IF instance.total.type = "str" THEN "TypeError"
             ELSE IF instance.total.cents # <<>> THEN "True" ELSE "False"
        ELSE "False"

\* variant: a paid order is put back to 'created'
mark_paid_toggle(db, instance, cs) ==
    LET result(s) ==
            [db |-> s.db, instance |-> s.instance, value |-> s.instance.status,
             calls |-> <<"mark_paid", "check_done">> \o s.calls]
    IN  IF instance.status # "paid"
        THEN LET done == check_done(instance, cs)
             IN  IF done = "TypeError"
                 THEN [db |-> db, instance |-> instance, value |-> "TypeError",
                       calls |-> <<"mark_paid", "check_done">>]
                 ELSE IF done = "True"
                 THEN result(save(db, [instance EXCEPT !.status = "paid"], cs))
                 ELSE [db |-> db, instance |-> instance, value |-> instance.status,
                       calls |-> <<"mark_paid", "check_done">>]
        ELSE result(save(db, [instance EXCEPT !.status = "created"], cs))

mark_paid(db, instance, cs) ==
    LET result(s) ==
            [db |-> s.db, instance |-> s.instance, value |-> s.instance.status,
             calls |-> <<"mark_paid", "check_done">> \o s.calls]
    IN  IF instance.status # "paid"
        THEN LET done == check_done(instance, cs)
             IN  IF done = "TypeError"
                 THEN [db |-> db, instance |-> instance, value |-> "TypeError",
                       calls |-> <<"mark_paid", "check_done">>]
                 ELSE IF done = "True"
                 THEN result(save(db, [instance EXCEPT !.status = "paid"], cs))
                 ELSE [db |-> db, instance |-> instance, value |-> instance.status,
                       calls |-> <<"mark_paid", "check_done">>]
        ELSE [db |-> db, instance |-> instance, value |-> instance.status,
              calls |-> <<"mark_paid">>]

RECURSIVE update_each(_, _, _)
\* update_total on every order of qs, oldest first
update_each(db, qs, cs) ==
    IF qs = {} THEN [db |-> db, calls |-> <<>>]
    ELSE LET i == CHOOSE k \in qs : \A j \in qs : k <= j
             then(u) ==
                 LET result(r) == [db |-> r.db, calls |-> u.calls \o r.calls]
                 IN  result(update_each(u.db, qs \ {i}, cs))
         IN  then(update_total(db, FromRow(db, i), cs))

\* variant: every order of the cart is recomputed, not only a single one
cart_total_post_save_receiver_each(db, c, created, cs) ==
    IF ~created
    THEN LET result(u) ==
                 [db |-> u.db, calls |-> <<"cart_total_post_save_receiver">> \o u.calls]
         IN  result(update_each(db, {i \in DOMAIN db : db[i].cart = c}, cs))
    ELSE [db |-> db, calls |-> <<"cart_total_post_save_receiver">>]

\* variant: with several orders on the cart the newest one is recomputed
cart_total_post_save_receiver_first(db, c, created, cs) ==
    IF ~created
    THEN LET qs == {i \in DOMAIN db : db[i].cart = c}
             result(u) ==
                 [db |-> u.db, calls |-> <<"cart_total_post_save_receiver">> \o u.calls]
         IN  IF Cardinality(qs) >= 1
             THEN result(update_total(db, FromRow(db, CHOOSE i \in qs : \A j \in qs : j <= i),
                                      cs))
             ELSE [db |-> db, calls |-> <<"cart_total_post_save_receiver">>]
    ELSE [db |-> db, calls |-> <<"cart_total_post_save_receiver">>]

\* post_save of Cart
cart_total_post_save_receiver(db, c, created, cs) ==
    IF ~created
    THEN LET qs == {i \in DOMAIN db : db[i].cart = c}
             result(u) ==
                 [db |-> u.db, calls |-> <<"cart_total_post_save_receiver">> \o u.calls]
         IN  IF Cardinality(qs) = 1
             THEN result(update_total(db, FromRow(db, CHOOSE i \in qs : TRUE), cs))
             ELSE [db |-> db, calls |-> <<"cart_total_post_save_receiver">>]
    ELSE [db |-> db, calls |-> <<"cart_total_post_save_receiver">>]

\* variant: the lookup result is ignored and an order is always created
get_or_new_always_new(db, billing_profile, cart_obj, cs) ==
    LET result(s) == [db |-> s.db, obj |-> s.instance, created |-> TRUE,
                      calls |-> <<"get_or_new">> \o s.calls]
    IN  result(save(db, NewInstance(billing_profile, cart_obj,
                                    DefaultShippingTotal), cs))

\* variant: with several matches the newest one is returned
get_or_new_first_match(db, billing_profile, cart_obj, cs) ==
    LET qs == {i \in DOMAIN db :
                  /\ db[i].billing_profile = billing_profile
                  /\ db[i].cart = cart_obj
                  /\ db[i].active
                  /\ db[i].status = "created"}
    IN  IF Cardinality(qs) >= 1
        THEN [db |-> db, obj |-> FromRow(db, CHOOSE i \in qs : \A j \in qs : j <= i),
              created |-> FALSE, calls |-> <<"get_or_new">>]
        ELSE LET result(s) == [db |-> s.db, obj |-> s.instance, created |-> TRUE,
                               calls |-> <<"get_or_new">> \o s.calls]
             IN  result(save(db, NewInstance(billing_profile, cart_obj,
                                             DefaultShippingTotal), cs))

\* OrderManager.get_or_new
get_or_new(db, billing_profile, cart_obj, cs) ==
    LET qs == {i \in DOMAIN db :
                  /\ db[i].billing_profile = billing_profile
                  /\ db[i].cart = cart_obj
                  /\ db[i].active
                  /\ db[i].status = "created"}
    IN  IF Cardinality(qs) = 1
        THEN [db |-> db, obj |-> FromRow(db, CHOOSE i \in qs : TRUE), created |-> FALSE,
              calls |-> <<"get_or_new">>]
        ELSE LET result(s) == [db |-> s.db, obj |-> s.instance, created |-> TRUE,
                               calls |-> <<"get_or_new">> \o s.calls]
             IN  result(save(db, NewInstance(billing_profile, cart_obj,
                                             DefaultShippingTotal), cs))

\* the queryset of get_or_new, evaluated on the table as it is at the time of
\* the query
get_or_new_qs(db, billing_profile, cart_obj) ==
    {i \in DOMAIN db :
        /\ db[i].billing_profile = billing_profile
        /\ db[i].cart = cart_obj
        /\ db[i].active
        /\ db[i].status = "created"}

\* qs.first() under Meta.ordering = ['-timestamp', '-updated']: the newest
\* row of the queryset, None (NoPk) when it is empty
first(qs) == IF qs = {} THEN NoPk ELSE CHOOSE i \in qs : \A j \in qs : j <= i

\* OrderQuerySet.by_request, for the billing profile the request resolves to
by_request(db, billing_profile) ==
    {i \in DOMAIN db : db[i].billing_profile = billing_profile}

\* variant: the default Manager.all(), every row
ProductPurchaseManager_all_unfiltered(db) == DOMAIN db

\* ProductPurchaseManager.all: the rows with refunded=False
ProductPurchaseManager_all(db) == {i \in DOMAIN db : ~db[i].refunded}

\* ---- state machine
Keep(h, obj) == IF h = NotKept THEN inst ELSE [inst EXCEPT ![h] = obj]

Init ==
    /\ carts = [c \in Carts |-> NoCart]
    /\ orders = <<>>
    /\ inst = [h \in Held |-> NoInstance]
    /\ ret = [op |-> "init", calls |-> <<>>]
    /\ purchases = <<>>
    /\ pending = [r \in Requests |-> NoCall]

\* Cart saved for the first time
CreateCart(c, t, d) ==
    /\ carts[c] = NoCart
    /\ carts' = [carts EXCEPT ![c] = [total |-> t, is_digital |-> d]]
    /\ \E r \in {cart_total_post_save_receiver(orders, c, TRUE, carts')} :
           /\ orders' = r.db
           /\ ret' = [op |-> "Cart.save", cart |-> c, created |-> TRUE, calls |-> r.calls]
    /\ UNCHANGED <<inst, purchases, pending>>

\* an existing Cart saved with total t
SaveCart(c, t) ==
    /\ carts[c] # NoCart
    /\ carts' = [carts EXCEPT ![c].total = t]
    /\ \E r \in {cart_total_post_save_receiver(orders, c, FALSE, carts')} :
           /\ orders' = r.db
           /\ ret' = [op |-> "Cart.save", cart |-> c, created |-> FALSE, calls |-> r.calls]
    /\ UNCHANGED <<inst, purchases, pending>>

\* Order.objects.get_or_new(bp, c); the caller keeps the returned object in a
\* slot or drops it
GetOrNew(bp, c) ==
    /\ carts[c] # NoCart
    /\ \E r \in {get_or_new(orders, bp, c, carts)} :
           /\ Len(r.db) <= MaxOrders
           /\ orders' = r.db
           /\ ret' = [op |-> "get_or_new", billing_profile |-> bp, cart |-> c,
                      pk |-> r.obj.pk, created |-> r.created, calls |-> r.calls]
           /\ \E h \in Held \cup {NotKept} : inst' = Keep(h, r.obj)
    /\ UNCHANGED <<carts, purchases, pending>>

\* Order.objects.create(billing_profile=bp, cart=c, shipping_total=st)
CreateOrder(bp, c, st) ==
    /\ carts[c] # NoCart
    /\ Len(orders) < MaxOrders
    /\ \E s \in {save(orders, NewInstance(bp, c, st), carts)} :
           /\ orders' = s.db
           /\ ret' = [op |-> "create", billing_profile |-> bp, cart |-> c,
                      pk |-> s.instance.pk, created |-> TRUE,
                      calls |-> <<"create">> \o s.calls]
           /\ \E h \in Held \cup {NotKept} : inst' = Keep(h, s.instance)
    /\ UNCHANGED <<carts, purchases, pending>>

\* the caller takes an order out of Order.objects.by_request(request)
Load(bp, pk, h) ==
    /\ pk \in by_request(orders, bp)
    /\ inst' = [inst EXCEPT ![h] = FromRow(orders, pk)]
    /\ ret' = [op |-> "by_request", h |-> h, pk |-> pk, calls |-> <<"by_request">>]
    /\ UNCHANGED <<carts, orders, purchases, pending>>

UpdateTotal(h) ==
    /\ inst[h] # NoInstance
    /\ \E u \in {update_total(orders, inst[h], carts)} :
           /\ orders' = u.db
           /\ inst' = [inst EXCEPT ![h] = u.instance]
           /\ ret' = [op |-> "update_total", h |-> h, pk |-> inst[h].pk, value |-> u.value,
                      calls |-> u.calls]
    /\ UNCHANGED <<carts, purchases, pending>>

MarkPaid(h) ==
    /\ inst[h] # NoInstance
    /\ \E m \in {mark_paid(orders, inst[h], carts)} :
           /\ orders' = m.db
           /\ inst' = [inst EXCEPT ![h] = m.instance]
           /\ ret' = [op |-> "mark_paid", h |-> h, pk |-> inst[h].pk, value |-> m.value,
                      calls |-> m.calls]
    /\ UNCHANGED <<carts, purchases, pending>>

\* the caller assigns attributes of a held instance and saves it
SaveWith(h, edited) ==
    /\ inst[h] # NoInstance
    /\ edited # inst[h]
    /\ \E s \in {save(orders, edited, carts)} :
           /\ orders' = s.db
           /\ inst' = [inst EXCEPT ![h] = s.instance]
           /\ ret' = [op |-> "save", h |-> h, pk |-> inst[h].pk, calls |-> s.calls]
    /\ UNCHANGED <<carts, purchases, pending>>

SetBillingAddress(h) == SaveWith(h, [inst[h] EXCEPT !.billing_address = Address])

SetShippingAddress(h) == SaveWith(h, [inst[h] EXCEPT !.shipping_address = Address])

SetShippingTotal(h, st) == SaveWith(h, [inst[h] EXCEPT !.shipping_total = st])

\* fulfilment of a paid order
Fulfil(h, s) ==
    /\ inst[h] # NoInstance
    /\ inst[h].status = "paid"
    /\ SaveWith(h, [inst[h] EXCEPT !.status = s])

\* ProductPurchase.objects.create(billing_profile=bp, product=p)
CreatePurchase(bp, p) ==
    /\ Len(purchases) < MaxPurchases
    /\ purchases' = Append(purchases,
                           [billing_profile |-> bp, product |-> p, refunded |-> FALSE])
    /\ ret' = [op |-> "ProductPurchase.create", pk |-> Len(purchases'), calls |-> <<>>]
    /\ UNCHANGED <<carts, orders, inst, pending>>

\* purchase i is saved with its refunded flag set to b
SetRefunded(i, b) ==
    /\ purchases[i].refunded # b
    /\ purchases' = [purchases EXCEPT ![i].refunded = b]
    /\ ret' = [op |-> "ProductPurchase.save", pk |-> i, calls |-> <<>>]
    /\ UNCHANGED <<carts, orders, inst, pending>>

\* ProductPurchase.objects.all()
ListPurchases ==
    /\ ret' = [op |-> "ProductPurchase.all", value |-> ProductPurchaseManager_all(purchases),
               calls |-> <<"all">>]
    /\ UNCHANGED <<carts, orders, inst, purchases, pending>>

\* request r enters get_or_new(bp, c) and runs qs.count()
GetOrNewCount(r, bp, c) ==
    /\ pending[r] = NoCall
    /\ carts[c] # NoCart
    /\ pending' = [pending EXCEPT ![r] =
                      [pc |-> "counted", billing_profile |-> bp, cart |-> c,
                       count |-> Cardinality(get_or_new_qs(orders, bp, c))]]
    /\ ret' = [op |-> "qs.count", request |-> r, calls |-> <<"get_or_new">>]
    /\ UNCHANGED <<carts, orders, inst, purchases>>

\* request r counted one match: obj = qs.first(), a query of its own
GetOrNewFirst(r) ==
    /\ pending[r].pc = "counted"
    /\ pending[r].count = 1
    /\ pending' = [pending EXCEPT ![r] =
                      [pc |-> "done", billing_profile |-> pending[r].billing_profile,
                       cart |-> pending[r].cart, created |-> FALSE,
                       pk |-> first(get_or_new_qs(orders, pending[r].billing_profile,
                                                  pending[r].cart))]]
    /\ ret' = [op |-> "qs.first", request |-> r, calls |-> <<>>]
    /\ UNCHANGED <<carts, orders, inst, purchases>>

\* request r counted no match or several: Order.objects.create(...)
GetOrNewCreate(r) ==
    /\ pending[r].pc = "counted"
    /\ pending[r].count # 1
    /\ Len(orders) < MaxOrders
    /\ \E s \in {save(orders, NewInstance(pending[r].billing_profile, pending[r].cart,
                                           DefaultShippingTotal), carts)} :
           /\ orders' = s.db
           /\ pending' = [pending EXCEPT ![r] =
                             [pc |-> "done", billing_profile |-> pending[r].billing_profile,
                              cart |-> pending[r].cart, created |-> TRUE,
                              pk |-> s.instance.pk]]
           /\ ret' = [op |-> "objects.create", request |-> r, calls |-> s.calls]
    /\ UNCHANGED <<carts, inst, purchases>>

\* the operations on orders and carts, orders coming from get_or_new only
Next ==
    \/ \E c \in Carts, t \in Prices : CreateCart(c, t, FALSE)
    \/ \E c \in Carts, t \in Prices : SaveCart(c, t)
    \/ \E bp \in BillingProfiles \cup {None}, c \in Carts : GetOrNew(bp, c)
    \/ \E h \in Held : UpdateTotal(h)
    \/ \E h \in Held : MarkPaid(h)

Spec == Init /\ [][Next]_vars

\* the checkout of one order: addresses, payment, fulfilment
NextCheckout ==
    \/ \E c \in Carts, t \in CheckoutPrices, d \in BOOLEAN : CreateCart(c, t, d)
    \/ \E bp \in {None, "A"}, c \in Carts, st \in ShippingTotals :
          orders = <<>> /\ CreateOrder(bp, c, st)
    \/ \E bp \in {None, "A"}, pk \in DOMAIN orders, h \in Held : Load(bp, pk, h)
    \/ \E h \in Held : SetBillingAddress(h)
    \/ \E h \in Held : SetShippingAddress(h)
    \/ \E h \in Held : MarkPaid(h)
    \/ \E h \in Held, s \in ORDER_STATUS_CHOICES \ {"created", "paid"} : Fulfil(h, s)
    \/ \E c \in Carts, t \in CheckoutPrices : SaveCart(c, t)
    \/ \E h \in Held : UpdateTotal(h)

SpecCheckout == Init /\ [][NextCheckout]_vars

\* totals of one billing profile's orders, large amounts included
NextTotals ==
    \/ \E c \in Carts, t \in LargePrices : CreateCart(c, t, FALSE)
    \/ \E c \in Carts, t \in LargePrices : SaveCart(c, t)
    \/ \E c \in Carts : GetOrNew("A", c)
    \/ \E c \in Carts, st \in ShippingTotals : CreateOrder("A", c, st)
    \/ \E h \in Held, st \in ShippingTotals : SetShippingTotal(h, st)
    \/ \E h \in Held : UpdateTotal(h)

SpecTotals == Init /\ [][NextTotals]_vars

\* the life of the orders of a digital cart: guest and user orders, totals,
\* billing address, payment
NextLifecycle ==
    \/ \E c \in Carts, t \in Prices : CreateCart(c, t, TRUE)
    \/ \E c \in Carts, t \in Prices : SaveCart(c, t)
    \/ \E bp \in {None, "A"}, c \in Carts : GetOrNew(bp, c)
    \/ \E h \in Held : UpdateTotal(h)
    \/ \E h \in Held : SetBillingAddress(h)
    \/ \E h \in Held : MarkPaid(h)

SpecLifecycle == Init /\ [][NextLifecycle]_vars

\* purchases are recorded, refunded, un-refunded and listed
NextPurchases ==
    \/ \E bp \in BillingProfiles, p \in Products : CreatePurchase(bp, p)
    \/ \E i \in DOMAIN purchases, b \in BOOLEAN : SetRefunded(i, b)
    \/ ListPurchases

SpecPurchases == Init /\ [][NextPurchases]_vars

\* two requests, each calling get_or_new once, their queries interleaved
NextConcurrent ==
    \/ \E c \in Carts, t \in Prices : CreateCart(c, t, FALSE)
    \/ \E c \in Carts, t \in Prices : SaveCart(c, t)
    \/ \E r \in Requests, bp \in {None, "A"}, c \in Carts : GetOrNewCount(r, bp, c)
    \/ \E r \in Requests : GetOrNewFirst(r)
    \/ \E r \in Requests : GetOrNewCreate(r)

SpecConcurrent == Init /\ [][NextConcurrent]_vars

\* ---- properties

\* the active orders with status 'created' of a billing profile on a cart
ActiveCreated(bp, c) ==
    {i \in DOMAIN orders :
        /\ orders[i].billing_profile = bp
        /\ orders[i].cart = c
        /\ orders[i].active
        /\ orders[i].status = "created"}

\* billing profile set, billing address set, total > 0, and shipping address
\* set or digital cart
Fulfillable(o) ==
    /\ o.billing_profile # None
    /\ o.billing_address # None
    /\ o.total.cents # <<>>
    /\ (o.shipping_address # None \/ carts[o.cart].is_digital)

\* how often an operation entered the method or receiver called name
Count(calls, name) == Cardinality({i \in DOMAIN calls : calls[i] = name})

StatusRank(s) == IF s = "created" THEN 0 ELSE IF s = "paid" THEN 1 ELSE 2

\* C1: for every pair (cart, billing profile) at most one order is active
\* with status 'created'
C1_AtMostOneActiveCreated ==
    \A c \in Carts, bp \in BillingProfiles \cup {None} :
        Cardinality(ActiveCreated(bp, c)) <= 1

\* C2: when exactly one active order with status 'created' matches, get_or_new
\* returns it with created=False and the table is unchanged
C2_GetOrNewReturnsExisting ==
    [][ret'.op = "get_or_new" =>
        LET m == ActiveCreated(ret'.billing_profile, ret'.cart)
        IN  Cardinality(m) = 1 =>
               /\ ~ret'.created
               /\ ret'.pk \in m
               /\ orders' = orders]_vars

C2_Witness ==
    /\ ret.op = "get_or_new"
    /\ ~ret.created
    /\ \E i \in DOMAIN orders :
          /\ i # ret.pk
          /\ orders[i].billing_profile = ret.billing_profile
          /\ ~orders[i].active

\* C3: right after an order is created on a cart with a billing profile, every
\* order of that cart with another billing profile (none included) is inactive
\* and the new order is active
C3_HandoffDeactivates ==
    (ret.op \in {"get_or_new", "create"} /\ ret.created) =>
        /\ orders[ret.pk].active
        /\ orders[ret.pk].billing_profile = ret.billing_profile
        /\ orders[ret.pk].cart = ret.cart
        /\ \A i \in DOMAIN orders :
              (orders[i].cart = ret.cart
                 /\ orders[i].billing_profile # ret.billing_profile)
              => ~orders[i].active

C3_Witness ==
    /\ ret.op = "get_or_new"
    /\ ret.created
    /\ ret.billing_profile # None
    /\ \E i, j \in DOMAIN orders :
          /\ orders[i].cart = ret.cart /\ orders[i].billing_profile = None
          /\ orders[j].cart = ret.cart
          /\ orders[j].billing_profile \notin {None, ret.billing_profile}
          /\ ~orders[i].active /\ ~orders[j].active

\* C4: mark_paid moves a status to 'paid' only when the order is fulfillable;
\* on an unpaid order that is not fulfillable it changes nothing, and it
\* returns the unchanged status when check_done is False
C4_MarkPaidOnlyWhenDone ==
    [][ret'.op = "mark_paid" =>
        LET o == inst[ret'.h]
        IN  /\ (orders'[ret'.pk].status = "paid" /\ orders[ret'.pk].status # "paid")
                  => Fulfillable(o)
            /\ (o.status # "paid" /\ ~Fulfillable(o))
                  => (orders' = orders /\ inst'[ret'.h].status = o.status)
            /\ (o.status # "paid" /\ check_done(o, carts) = "False")
                  => ret'.value = o.status]_vars

C4_Witness ==
    /\ ret.op = "mark_paid"
    /\ ret.value = "paid"
    /\ orders[ret.pk].status = "paid"
    /\ ~carts[orders[ret.pk].cart].is_digital
    /\ orders[ret.pk].shipping_address # None

\* C5: no step moves the status of an order backward along
\* created -> paid -> {shipped, refunded, cancelled, delivered}
C5_StatusOnlyForward ==
    [][\A i \in DOMAIN orders :
          StatusRank(orders'[i].status) >= StatusRank(orders[i].status)]_vars

\* C6: after mark_paid, a second mark_paid changes neither the row nor the
\* instance and returns the same status; mark_paid never turns 'paid' into
\* 'created'
C6_MarkPaidIdempotent ==
    [][ret'.op = "mark_paid" =>
        \E again \in {mark_paid(orders', inst'[ret'.h], carts')} :
            /\ again.db = orders'
            /\ again.instance = inst'[ret'.h]
            /\ again.value = ret'.value
            /\ (orders[ret'.pk].status = "paid" => orders'[ret'.pk].status # "created")]_vars

C6_Witness ==
    /\ ret.op = "mark_paid"
    /\ ret.value = "paid"
    /\ inst[ret.h].status = "paid"
    /\ carts[inst[ret.h].cart].is_digital

\* C7: after an existing cart is saved, every active order of the cart has
\* total = cart.total + shipping_total
C7_CartSaveRecomputesActive ==
    (ret.op = "Cart.save" /\ ~ret.created) =>
        \A i \in DOMAIN orders :
            (orders[i].cart = ret.cart /\ orders[i].active)
            => orders[i].total = Add(carts[ret.cart].total, orders[i].shipping_total)

\* C8: right after an order is created its stored total is the cart's total
\* plus its shipping_total
C8_TotalAtCreation ==
    (ret.op \in {"get_or_new", "create"} /\ ret.created) =>
        orders[ret.pk].total
            = Add(carts[ret.cart].total, orders[ret.pk].shipping_total)

\* C9: update_total sets, stores and returns cart.total + shipping_total
C9_UpdateTotalExact ==
    ret.op = "update_total" =>
        LET o     == inst[ret.h]
            exact == Add(carts[o.cart].total, o.shipping_total)
        IN  /\ o.total.cents = exact
            /\ orders[ret.pk].total = exact
            /\ ret.value.cents = exact

\* C10: check_done returns True exactly when the billing profile and the
\* billing address are set, total > 0 and the shipping address is set or the
\* cart is digital
C10_CheckDoneIff ==
    \A h \in Held :
        inst[h] # NoInstance =>
            (check_done(inst[h], carts) = "True" <=> Fulfillable(inst[h]))

\* C11: every stored order has a non-empty order_id, and no step changes the
\* order_id of a stored order
C11_OrderIdImmutable ==
    [][\A i \in DOMAIN orders' :
          /\ orders'[i].order_id # NoOrderId
          /\ i \in DOMAIN orders => orders'[i].order_id = orders[i].order_id]_vars

C11_Witness ==
    /\ ret.op = "mark_paid"
    /\ ret.value = "paid"
    /\ \E i \in DOMAIN orders : ~orders[i].active
    /\ \E i, j \in DOMAIN orders : orders[i].order_id # orders[j].order_id

\* C12: creating an order runs update_total exactly once (two saves: the
\* insert and the update inside update_total), saving an existing cart runs it
\* at most once, saving a new cart never, and no operation saves an order more
\* than twice
C12_ReactorOncePerEvent ==
    /\ (ret.op \in {"get_or_new", "create"} /\ ret.created) =>
           /\ Count(ret.calls, "update_total") = 1
           /\ Count(ret.calls, "save") = 2
           /\ Count(ret.calls, "order_post_save_receiver") = 2
    /\ ret.op = "Cart.save" =>
           /\ Count(ret.calls, "update_total") <= 1
           /\ Count(ret.calls, "cart_total_post_save_receiver") = 1
           /\ ret.created => Count(ret.calls, "update_total") = 0
    /\ Count(ret.calls, "save") <= 2
    /\ Count(ret.calls, "save") = Count(ret.calls, "order_id_pre_save_receiver")
    /\ Count(ret.calls, "save") = Count(ret.calls, "order_post_save_receiver")

C12_Witness ==
    /\ ret.op = "Cart.save"
    /\ ~ret.created
    /\ Count(ret.calls, "update_total") = 1
    /\ \E i \in DOMAIN orders : orders[i].cart = ret.cart

\* C13: ProductPurchase.objects.all() returns exactly the purchases whose
\* refunded flag is False at the time of the call
C13_AllExcludesRefunded ==
    ret.op = "ProductPurchase.all" =>
        /\ ret.value \subseteq DOMAIN purchases
        /\ \A i \in DOMAIN purchases : (i \in ret.value <=> purchases[i].refunded = FALSE)

C13_Witness ==
    /\ ret.op = "ProductPurchase.all"
    /\ \E i, j \in DOMAIN purchases :
          /\ purchases[i].refunded /\ i \notin ret.value
          /\ ~purchases[j].refunded /\ j \in ret.value

\* C14: a save of an order that is already stored (by update_total, by
\* mark_paid, or by update_total after a cart save) leaves the active flag of
\* every other order unchanged
C14_LaterSaveKeepsSiblings ==
    [][ret'.op \in {"update_total", "mark_paid", "Cart.save"} =>
        LET saved == IF ret'.op = "Cart.save"
                     THEN {i \in DOMAIN orders : orders[i].cart = ret'.cart}
                     ELSE {ret'.pk}
        IN  \A i \in DOMAIN orders \ saved : orders'[i].active = orders[i].active]_vars

\* C15: the save of a cart that was just created, or that has no order or
\* more than one order, changes no order: the same orders with the same total,
\* status and active flag
C15_CartSaveNoOp ==
    [][(/\ ret'.op = "Cart.save"
        /\ \/ ret'.created
           \/ Cardinality({i \in DOMAIN orders : orders[i].cart = ret'.cart}) # 1) =>
          /\ DOMAIN orders' = DOMAIN orders
          /\ \A i \in DOMAIN orders :
                /\ orders'[i].total = orders[i].total
                /\ orders'[i].status = orders[i].status
                /\ orders'[i].active = orders[i].active]_vars

C15_Witness ==
    /\ ret.op = "Cart.save"
    /\ ~ret.created
    /\ Cardinality({i \in DOMAIN orders : orders[i].cart = ret.cart}) > 1
    /\ \E i \in DOMAIN orders :
          /\ orders[i].cart = ret.cart
          /\ orders[i].active
          /\ orders[i].total # Add(carts[ret.cart].total, orders[i].shipping_total)

\* C16: with more than one active order of status 'created' matching
\* (billing_profile, cart), get_or_new returns none of them: it creates one
\* more order for that billing profile and cart, returns it with created=True,
\* and the number of matching orders grows by one
C16_GetOrNewWithSeveralCreates ==
    [][(/\ ret'.op = "get_or_new"
        /\ Cardinality(ActiveCreated(ret'.billing_profile, ret'.cart)) > 1) =>
          /\ ret'.created
          /\ ret'.pk \notin DOMAIN orders
          /\ ret'.pk \in DOMAIN orders'
          /\ Len(orders') = Len(orders) + 1
          /\ orders'[ret'.pk].billing_profile = ret'.billing_profile
          /\ orders'[ret'.pk].cart = ret'.cart
          /\ Cardinality({i \in DOMAIN orders' :
                             /\ orders'[i].billing_profile = ret'.billing_profile
                             /\ orders'[i].cart = ret'.cart
                             /\ orders'[i].active
                             /\ orders'[i].status = "created"})
                = Cardinality(ActiveCreated(ret'.billing_profile, ret'.cart)) + 1]_vars

C16_Witness ==
    /\ ret.op = "get_or_new"
    /\ ret.created
    /\ Cardinality(ActiveCreated(ret.billing_profile, ret.cart)) >= 3

\* C17: no step sets the stored active flag of an order back to True once it
\* is False
C17_ActiveMonotonic ==
    [][\A i \in DOMAIN orders : ~orders[i].active => ~orders'[i].active]_vars

\* C18: two interleaved get_or_new calls for the same (billing_profile, cart),
\* no matching order existing before them, create at most one order and return
\* the same order, and the pair never has two active 'created' orders
C18_InterleavedGetOrNew ==
    \A r1, r2 \in Requests :
        (/\ r1 # r2
         /\ pending[r1].pc = "done" /\ pending[r2].pc = "done"
         /\ pending[r1].billing_profile = pending[r2].billing_profile
         /\ pending[r1].cart = pending[r2].cart) =>
            /\ pending[r1].pk = pending[r2].pk
            /\ ~(pending[r1].created /\ pending[r2].created)
            /\ Cardinality(ActiveCreated(pending[r1].billing_profile, pending[r1].cart)) <= 1

====
